---- MODULE Spec2Model ----
(***************************************************************************)
(* AbyssChess (src/chess_engine.py): the move parser, the simplified       *)
(* legality checker, the move applicator, and main(), one invocation of    *)
(* which loads the persisted snapshot and leaderboard, applies one command *)
(* and writes the files back; the recent-moves and leaderboard fragments   *)
(* of render_board_md and the marker splicer of update_readme.             *)
(*                                                                         *)
(* A Python str is a sequence of one-character strings, a Python list of   *)
(* length 8 a function on 0..7, None the empty tuple, a raised exception a *)
(* value of its own.                                                       *)
(***************************************************************************)
EXTENDS Integers, Sequences, FiniteSets, TLC

VARIABLES
    dirExists,  \* chess_data/ exists
    gameFile,   \* chess_data/game.json: NoFile or the persisted state
    lbFile,     \* chess_data/leaderboard.json: NoFile or the persisted dict
    readme,     \* README.md: the fragments last spliced between its markers
    status,     \* exit status of the last invocation
    outcome,    \* how the last invocation ended
    lastCmd,    \* CHESS_CMD, CHESS_MOVE and CHESS_PLAYER of the last invocation
    written,    \* the files the last invocation wrote, in order
    kills,      \* the invocations that were killed so far
    played,     \* history: CHESS_MOVE and CHESS_PLAYER of the moves that
                \* succeeded since the last new game, in order
    tally,      \* history: the moves of each player that succeeded so far
    call,       \* a call of one of the pure functions: its arguments
    ret         \* ... and what it returned

vars == <<dirExists, gameFile, lbFile, readme, status, outcome, lastCmd,
          written, kills, played, tally, call, ret>>

---------------------------------------------------------------------------
(* Bounds of the model *)

\* moves accepted over all games
MaxMoves == 3
\* highest game number a new-game command is explored from
MaxGame == 2
\* longest token given to parse_move on its own
MaxTokLen == 5
\* invocations killed between their writes
MaxKills == 1

\* longest log the recent fragment is rendered of
MaxLog == 6

\* most entries of a leaderboard the rankings are rendered of
MaxEntries == 11

---------------------------------------------------------------------------
(* Python str and list primitives *)

LowerLetters == <<"a","b","c","d","e","f","g","h","i","j","k","l","m",
                  "n","o","p","q","r","s","t","u","v","w","x","y","z">>
UpperLetters == <<"A","B","C","D","E","F","G","H","I","J","K","L","M",
                  "N","O","P","Q","R","S","T","U","V","W","X","Y","Z">>
DigitChars == <<"0","1","2","3","4","5","6","7","8","9">>
Whitespace == {" ", "\t", "\n"}

Range(s) == {s[i] : i \in DOMAIN s}

LowerSet == Range(LowerLetters)
UpperSet == Range(UpperLetters)
DigitSet == Range(DigitChars)

\* str.lower() and str.upper() on one character
LowerOf == [ch \in UpperSet |-> LowerLetters[CHOOSE i \in 1..26 : UpperLetters[i] = ch]]
UpperOf == [ch \in LowerSet |-> UpperLetters[CHOOSE i \in 1..26 : LowerLetters[i] = ch]]

lower_ch(ch) == IF ch \in UpperSet THEN LowerOf[ch] ELSE ch

upper_ch(ch) == IF ch \in LowerSet THEN UpperOf[ch] ELSE ch

str_lower(s) == [i \in DOMAIN s |-> lower_ch(s[i])]

str_upper(s) == [i \in DOMAIN s |-> upper_ch(s[i])]

isupper(ch) == ch \in UpperSet

islower(ch) == ch \in LowerSet

RECURSIVE lstrip(_)
lstrip(s) == IF s # <<>> /\ Head(s) \in Whitespace THEN lstrip(Tail(s)) ELSE s

RECURSIVE rstrip(_)
rstrip(s) ==
    IF s # <<>> /\ s[Len(s)] \in Whitespace THEN rstrip(SubSeq(s, 1, Len(s) - 1)) ELSE s

str_strip(s) == rstrip(lstrip(s))

\* int(ch) of a one-character string raises ValueError unless ch is a digit
int_raises(ch) == ch \notin DigitSet

DigitValue == [ch \in DigitSet |-> (CHOOSE i \in 1..10 : DigitChars[i] = ch) - 1]

int_ch(ch) == DigitValue[ch]

\* list indexing lst[i] on a list of length 8: negative indices count from the
\* end, anything outside -8..7 raises IndexError
InRange(i) == i \in -8..7

PyIdx(i) == IF i < 0 THEN i + 8 ELSE i

---------------------------------------------------------------------------
(* Board representation *)

WhitePieces == {"K", "Q", "R", "B", "N", "P"}
BlackPieces == {"k", "q", "r", "b", "n", "p"}
Cells == WhitePieces \cup BlackPieces \cup {"."}

Rows == 0..7
Cols == 0..7
Squares == Rows \X Cols

BackRank == <<"r","n","b","q","k","b","n","r">>

INITIAL_BOARD ==
    [r \in Rows |-> [c \in Cols |->
        CASE r = 0 -> BackRank[c + 1]
          [] r = 1 -> "p"
          [] r = 6 -> "P"
          [] r = 7 -> upper_ch(BackRank[c + 1])
          [] OTHER -> "."]]

---------------------------------------------------------------------------
(* Move logic *)

\* col_map[ch] raises KeyError unless ch is one of a..h
ColMap == [ch \in {"a","b","c","d","e","f","g","h"} |->
              (CHOOSE i \in 1..8 : LowerLetters[i] = ch) - 1]

col_map_raises(ch) == ch \notin DOMAIN ColMap

col_map(ch) == ColMap[ch]

\* parse_move: ((fr, fc), (tr, tc)), or None = <<>>
parse_move(move_str) ==
    LET s == str_lower(str_strip(move_str)) IN
    IF Len(s) # 4 THEN <<>>
    ELSE IF \/ col_map_raises(s[1]) \/ int_raises(s[2])
            \/ col_map_raises(s[3]) \/ int_raises(s[4])
         THEN <<>>
         ELSE << <<8 - int_ch(s[2]), col_map(s[1])>>,
                 <<8 - int_ch(s[4]), col_map(s[3])>> >>

\* Python truthiness of what parse_move returns: None is falsy, a pair is not
Falsy(parsed) == parsed = <<>>

\* board[r][c] with Python's list indexing
At(board, r, c) == board[PyIdx(r)][PyIdx(c)]

NoPieceMsg == "Tidak ada bidak di posisi itu!"
WhiteTurnMsg == "Sekarang giliran putih!"
BlackTurnMsg == "Sekarang giliran hitam!"
OwnPieceMsg == "Tidak bisa makan bidak sendiri!"

Verdict(valid, msg) == [exc |-> "", valid |-> valid, msg |-> msg]
Raised(exc) == [exc |-> exc, valid |-> FALSE, msg |-> ""]

\* is_valid_move with the own-piece test made before the turn tests
is_valid_move_own_first(board, from_pos, to_pos, turn) ==
    LET piece == At(board, from_pos[1], from_pos[2])
        target == At(board, to_pos[1], to_pos[2])
    IN  IF piece = "." THEN Verdict(FALSE, NoPieceMsg)
        ELSE IF target # "." /\ (isupper(piece) = isupper(target))
        THEN Verdict(FALSE, OwnPieceMsg)
        ELSE IF turn = "white" /\ islower(piece) THEN Verdict(FALSE, WhiteTurnMsg)
        ELSE IF turn = "black" /\ isupper(piece) THEN Verdict(FALSE, BlackTurnMsg)
        ELSE Verdict(TRUE, "OK")

\* is_valid_move: (valid, msg), or the IndexError of a row outside the list
is_valid_move(board, from_pos, to_pos, turn) ==
    LET fr == from_pos[1]
        fc == from_pos[2]
        tr == to_pos[1]
        tc == to_pos[2]
    IN  IF ~InRange(fr) THEN Raised("IndexError")
        ELSE LET piece == At(board, fr, fc)
                 is_white == isupper(piece)
                 is_black == islower(piece)
             IN  IF piece = "." THEN Verdict(FALSE, NoPieceMsg)
                 ELSE IF turn = "white" /\ is_black THEN Verdict(FALSE, WhiteTurnMsg)
                 ELSE IF turn = "black" /\ is_white THEN Verdict(FALSE, BlackTurnMsg)
                 ELSE IF ~InRange(tr) THEN Raised("IndexError")
                 ELSE LET target == At(board, tr, tc) IN
                      IF target # "." /\ (is_white = isupper(target))
                      THEN Verdict(FALSE, OwnPieceMsg)
                      ELSE Verdict(TRUE, "OK")

\* apply_move that leaves the piece on its source square as well
apply_move_keeps_source(board, from_pos, to_pos) ==
    LET piece == At(board, from_pos[1], from_pos[2])
        b1 == [board EXCEPT ![PyIdx(to_pos[1])][PyIdx(to_pos[2])] = piece]
        b3 == IF piece = "P" /\ to_pos[1] = 0
              THEN [b1 EXCEPT ![PyIdx(to_pos[1])][PyIdx(to_pos[2])] = "Q"] ELSE b1
        b4 == IF piece = "p" /\ to_pos[1] = 7
              THEN [b3 EXCEPT ![PyIdx(to_pos[1])][PyIdx(to_pos[2])] = "q"] ELSE b3
    IN  b4

\* apply_move with the promotion rows exchanged
apply_move_rows_swapped(board, from_pos, to_pos) ==
    LET piece == At(board, from_pos[1], from_pos[2])
        b1 == [board EXCEPT ![PyIdx(to_pos[1])][PyIdx(to_pos[2])] = piece]
        b2 == [b1 EXCEPT ![PyIdx(from_pos[1])][PyIdx(from_pos[2])] = "."]
        b3 == IF piece = "P" /\ to_pos[1] = 7
              THEN [b2 EXCEPT ![PyIdx(to_pos[1])][PyIdx(to_pos[2])] = "Q"] ELSE b2
        b4 == IF piece = "p" /\ to_pos[1] = 0
              THEN [b3 EXCEPT ![PyIdx(to_pos[1])][PyIdx(to_pos[2])] = "q"] ELSE b3
    IN  b4

\* apply_move: works on a deep copy, so the caller's board keeps its cells.
\* main() reaches it only after is_valid_move returned, hence with rows in -8..7.
apply_move(board, from_pos, to_pos) ==
    LET fr == from_pos[1]
        fc == from_pos[2]
        tr == to_pos[1]
        tc == to_pos[2]
        piece == At(board, fr, fc)
        b1 == [board EXCEPT ![PyIdx(tr)][PyIdx(tc)] = piece]
        b2 == [b1 EXCEPT ![PyIdx(fr)][PyIdx(fc)] = "."]
        b3 == IF piece = "P" /\ tr = 0 THEN [b2 EXCEPT ![PyIdx(tr)][PyIdx(tc)] = "Q"] ELSE b2
        b4 == IF piece = "p" /\ tr = 7 THEN [b3 EXCEPT ![PyIdx(tr)][PyIdx(tc)] = "q"] ELSE b3
    IN  b4

\* the token f"{col}{8-r}{tcol}{8-tr}"
MoveToken(r, c, tr, tc) ==
    <<LowerLetters[c + 1], DigitChars[8 - r + 1], LowerLetters[tc + 1], DigitChars[8 - tr + 1]>>

\* get_legal_moves, innermost loop: for tc in range(8), from tc on
RECURSIVE legal_tc(_, _, _, _, _, _)
legal_tc(board, r, c, turn, tr, tc) ==
    IF tc = 8 THEN <<>>
    ELSE LET v == is_valid_move(board, <<r, c>>, <<tr, tc>>, turn) IN
         (IF v.valid THEN <<MoveToken(r, c, tr, tc)>> ELSE <<>>)
             \o legal_tc(board, r, c, turn, tr, tc + 1)

\* for tr in range(8), from tr on
RECURSIVE legal_tr(_, _, _, _, _)
legal_tr(board, r, c, turn, tr) ==
    IF tr = 8 THEN <<>>
    ELSE legal_tc(board, r, c, turn, tr, 0) \o legal_tr(board, r, c, turn, tr + 1)

\* for c in range(8), from c on: the squares that are skipped, and the rest
RECURSIVE legal_c(_, _, _, _)
legal_c(board, turn, r, c) ==
    IF c = 8 THEN <<>>
    ELSE LET piece == board[r][c] IN
         IF \/ piece = "."
            \/ (turn = "white" /\ ~isupper(piece))
            \/ (turn = "black" /\ ~islower(piece))
         THEN legal_c(board, turn, r, c + 1)
         ELSE legal_tr(board, r, c, turn, 0) \o legal_c(board, turn, r, c + 1)

\* for r in range(8), from r on
RECURSIVE legal_r(_, _, _)
legal_r(board, turn, r) ==
    IF r = 8 THEN <<>>
    ELSE legal_c(board, turn, r, 0) \o legal_r(board, turn, r + 1)

\* get_legal_moves with the source rows scanned from 1
get_legal_moves_from_row_1(board, turn) == legal_r(board, turn, 1)

get_legal_moves(board, turn) == legal_r(board, turn, 0)

---------------------------------------------------------------------------
(* Game state and the two stores *)

\* json.load and json.dump keep a dict's keys in insertion order: the
\* leaderboard is the sequence of its (player, count) items.
lb_has(lb, player) == \E i \in DOMAIN lb : lb[i].player = player

\* lb.get(player, 1)
lb_get_default_1(lb, player) ==
    IF lb_has(lb, player)
    THEN lb[CHOOSE i \in DOMAIN lb : lb[i].player = player].n
    ELSE 1

\* lb.get(player, 0)
lb_get(lb, player) ==
    IF lb_has(lb, player)
    THEN lb[CHOOSE i \in DOMAIN lb : lb[i].player = player].n
    ELSE 0

\* lb[player] = n
lb_set(lb, player, n) ==
    IF lb_has(lb, player)
    THEN [i \in DOMAIN lb |-> IF lb[i].player = player THEN [lb[i] EXCEPT !.n = n] ELSE lb[i]]
    ELSE Append(lb, [player |-> player, n |-> n])

\* what load_game returns without a snapshot, with white to move
FreshState_white_first ==
    [board |-> INITIAL_BOARD, turn |-> "white", moves |-> <<>>, game_num |-> 1]

FreshState ==
    [board |-> INITIAL_BOARD, turn |-> "black", moves |-> <<>>, game_num |-> 1]

\* a file is <<>> when it does not exist and <<content>> when it does
load_game(game) == IF game # <<>> THEN game[1] ELSE FreshState

load_leaderboard(lb) == IF lb # <<>> THEN lb[1] ELSE <<>>

\* datetime.utcnow().isoformat(): the clock's reading is not modelled
UtcNow == "utcnow"

Write(file, data) == [file |-> file, data |-> data]

\* save_game: Path.mkdir(exist_ok=True), then the file is written
save_game(dir, state) ==
    (IF dir THEN <<>> ELSE <<Write("dir", <<>>)>>) \o <<Write("game", state)>>

\* save_leaderboard: open(..., 'w') raises FileNotFoundError without chess_data/
save_leaderboard_raises(dir) == ~dir

save_leaderboard(lb) == <<Write("lb", lb)>>

\* the last lines of main: README.md, which is taken to exist, gets the
\* fragments render_board_md makes of these arguments
update_readme(state, lb) ==
    <<Write("readme", [board |-> state.board, turn |-> state.turn,
                       game_num |-> state.game_num, moves |-> state.moves,
                       leaderboard |-> lb])>>

Ended(st, kind, msg, checked, writes) ==
    [status |-> st, kind |-> kind, msg |-> msg, checked |-> checked, writes |-> writes]

\* state["turn"] = "white" if state["turn"] == "black" else "white"
flip_turn_to_white(turn) == IF turn = "black" THEN "white" ELSE "white"

\* state["turn"] = "white" if state["turn"] == "black" else "black"
flip_turn(turn) == IF turn = "black" THEN "white" ELSE "black"

\* the "new" branch of main with the game number carried over
main_new_same_number(dir, state, lb) ==
    LET new_state == [board |-> INITIAL_BOARD, turn |-> "black", moves |-> <<>>,
                      game_num |-> state.game_num]
    IN  Ended(0, "new", "", FALSE, save_game(dir, new_state) \o update_readme(new_state, lb))

\* the "new" branch of main
main_new(dir, state, lb) ==
    LET new_state == [board |-> INITIAL_BOARD, turn |-> "black", moves |-> <<>>,
                      game_num |-> state.game_num + 1]
    IN  Ended(0, "new", "", FALSE, save_game(dir, new_state) \o update_readme(new_state, lb))

\* the accepted move with the log begun anew instead of appended to
main_accept_log_restarted(dir, state, lb, move_str, player, from_pos, to_pos) ==
    LET new_state ==
            [state EXCEPT
                !.board = apply_move(state.board, from_pos, to_pos),
                !.moves = <<[move |-> str_upper(move_str), player |-> player,
                             time |-> UtcNow]>>,
                !.turn = flip_turn(state.turn)]
        new_lb == lb_set(lb, player, lb_get(lb, player) + 1)
    IN  IF save_leaderboard_raises(dir)
        THEN Ended(1, "FileNotFoundError", "", TRUE, <<>>)
        ELSE Ended(0, "moved", "", TRUE,
                   save_leaderboard(new_lb) \o save_game(dir, new_state)
                       \o update_readme(new_state, new_lb))

\* the "move" branch of main, once the move is found valid; CHESS_PLAYER is
\* taken as given, the players of the model having no blanks to strip
main_accept(dir, state, lb, move_str, player, from_pos, to_pos) ==
    LET new_state ==
            [state EXCEPT
                !.board = apply_move(state.board, from_pos, to_pos),
                !.moves = Append(state.moves,
                                 [move |-> str_upper(move_str), player |-> player,
                                  time |-> UtcNow]),
                !.turn = flip_turn(state.turn)]
        new_lb == lb_set(lb, player, lb_get(lb, player) + 1)
    IN  IF save_leaderboard_raises(dir)
        THEN Ended(1, "FileNotFoundError", "", TRUE, <<>>)
        ELSE Ended(0, "moved", "", TRUE,
                   save_leaderboard(new_lb) \o save_game(dir, new_state)
                       \o update_readme(new_state, new_lb))

\* the "move" branch of main with the leaderboard saved before the move is checked
main_move_save_first(dir, state, lb, move_env, player) ==
    LET move_str == str_strip(move_env)
        parsed == parse_move(move_str)
        new_lb == lb_set(lb, player, lb_get(lb, player) + 1)
        early == IF dir THEN save_leaderboard(new_lb) ELSE <<>>
    IN  IF Falsy(parsed) THEN Ended(1, "malformed", "", FALSE, <<>>)
        ELSE LET v == is_valid_move(state.board, parsed[1], parsed[2], state.turn) IN
             IF v.exc # "" THEN Ended(1, v.exc, "", TRUE, early)
             ELSE IF ~v.valid THEN Ended(1, "illegal", v.msg, TRUE, early)
             ELSE main_accept(dir, state, lb, move_str, player, parsed[1], parsed[2])

\* the "move" branch of main
main_move(dir, state, lb, move_env, player) ==
    LET move_str == str_strip(move_env)
        parsed == parse_move(move_str)
    IN  IF Falsy(parsed) THEN Ended(1, "malformed", "", FALSE, <<>>)
        ELSE LET v == is_valid_move(state.board, parsed[1], parsed[2], state.turn) IN
             IF v.exc # "" THEN Ended(1, v.exc, "", TRUE, <<>>)
             ELSE IF ~v.valid THEN Ended(1, "illegal", v.msg, TRUE, <<>>)
             ELSE main_accept(dir, state, lb, move_str, player, parsed[1], parsed[2])

\* main: one invocation on the files as they are; what it writes, in order,
\* and how it ends
main(command, move_env, player, dir, game, lbf) ==
    LET state == load_game(game)
        lb == load_leaderboard(lbf)
    IN  CASE command = "new" -> main_new(dir, state, lb)
          [] command = "move" -> main_move(dir, state, lb, move_env, player)
          [] OTHER -> Ended(0, "render", "", FALSE, update_readme(state, lb))

---------------------------------------------------------------------------
(* Rendering: a fragment is the sequence of its lines (joined by "\n" in the
   code), a line the sequence of the parts its f-string puts together *)

\* s[-k:]
slice_last(s, k) == IF Len(s) <= k THEN s ELSE SubSeq(s, Len(s) - k + 1, Len(s))

\* s[:k]
slice_first(s, k) == IF Len(s) <= k THEN s ELSE SubSeq(s, 1, k)

\* s[::-1]
reversed_seq(s) == [i \in 1..Len(s) |-> s[Len(s) + 1 - i]]

\* the 5 of recent_moves[-5:]
RecentLimit == 5

recent_row(m) ==
    <<"| ", m.move, " | [@", m.player, "](https://github.com/", m.player, ") |">>

RecentHeader == << <<"| Gerakan | Pemain |">>, <<"|---------|--------|">> >>

NoRecent == << <<"*Belum ada gerakan.*">> >>

\* the recent fragment with the first five records in place of the last five
recent_md_first_five(recent_moves) ==
    IF recent_moves # <<>>
    THEN LET shown == reversed_seq(slice_first(recent_moves, RecentLimit))
         IN  RecentHeader \o [i \in 1..Len(shown) |-> recent_row(shown[i])]
    ELSE NoRecent

\* render_board_md: the recent fragment
recent_md(recent_moves) ==
    IF recent_moves # <<>>
    THEN LET shown == reversed_seq(slice_last(recent_moves, RecentLimit))
         IN  RecentHeader \o [i \in 1..Len(shown) |-> recent_row(shown[i])]
    ELSE NoRecent

\* sorted(..., key=lambda x: x[1], reverse=True): the sort is stable, entries
\* of equal count keep the order they had; x, coming after all of `done` in
\* the input, goes behind every entry of at least its count
insert_by_count(done, x) ==
    LET before == SelectSeq(done, LAMBDA y : y.n >= x.n)
        after == SelectSeq(done, LAMBDA y : y.n < x.n)
    IN  before \o <<x>> \o after

RECURSIVE sorted_by_count(_)
sorted_by_count(items) ==
    IF items = <<>> THEN <<>>
    ELSE insert_by_count(sorted_by_count(SubSeq(items, 1, Len(items) - 1)),
                         items[Len(items)])

\* the 10 of [:10]
RankLimit == 10

\* the ten entries taken before the sort instead of after it
lb_sorted_cut_first(leaderboard) == sorted_by_count(slice_first(leaderboard, RankLimit))

\* lb_sorted = sorted(leaderboard.items(), key=lambda x: x[1], reverse=True)[:10]
lb_sorted(leaderboard) == slice_first(sorted_by_count(leaderboard), RankLimit)

\* the rank and the count are numbers here, where the f-string prints them
lb_row(i, u, n) ==
    <<"| ", i + 1, " | [@", u, "](https://github.com/", u, ") | ", n, " |">>

RankHeader == << <<"| # | Pemain | Gerakan |">>, <<"|---|--------|---------|">> >>

NoPlayers == << <<"*Belum ada pemain.*">> >>

\* render_board_md: the leaderboard fragment
lb_md(leaderboard) ==
    LET top == lb_sorted(leaderboard) IN
    IF top # <<>>
    THEN RankHeader \o [k \in 1..Len(top) |-> lb_row(k - 1, top[k].player, top[k].n)]
    ELSE NoPlayers

---------------------------------------------------------------------------
(* The README splicer: the document is the sequence of its pieces, a piece
   being a marker comment or a stretch of text that holds no marker; every
   piece is the tuple of the parts an f-string puts together *)

start_marker(marker) == <<"<!-- CHESS_", marker, "_START -->">>

end_marker(marker) == <<"<!-- CHESS_", marker, "_END -->">>

Newline == <<"\n">>

\* replacement = f"<!-- CHESS_{marker}_START -->\n{new_content}\n<!-- CHESS_{marker}_END -->"
replacement(marker, new_content) ==
    <<start_marker(marker), Newline, new_content, Newline, end_marker(marker)>>

\* replace_section with a greedy pattern: .* in place of .*?
RECURSIVE replace_section_greedy(_, _, _)
replace_section_greedy(text, marker, new_content) ==
    LET starts == {i \in DOMAIN text :
                      /\ text[i] = start_marker(marker)
                      /\ \E j \in (i + 1)..Len(text) : text[j] = end_marker(marker)}
    IN  IF starts = {} THEN text
        ELSE LET i == CHOOSE x \in starts : \A y \in starts : x <= y
                 ends == {j \in (i + 1)..Len(text) : text[j] = end_marker(marker)}
                 j == CHOOSE x \in ends : \A y \in ends : x >= y
             IN  SubSeq(text, 1, i - 1) \o replacement(marker, new_content)
                     \o replace_section_greedy(SubSeq(text, j + 1, Len(text)), marker,
                                               new_content)

\* replace_section: re.sub replaces every match, found from left to right and
\* not overlapping; a match begins at the first START marker that has an END
\* marker behind it and, .*? being lazy and DOTALL, ends at the nearest one
RECURSIVE replace_section(_, _, _)
replace_section(text, marker, new_content) ==
    LET starts == {i \in DOMAIN text :
                      /\ text[i] = start_marker(marker)
                      /\ \E j \in (i + 1)..Len(text) : text[j] = end_marker(marker)}
    IN  IF starts = {} THEN text
        ELSE LET i == CHOOSE x \in starts : \A y \in starts : x <= y
                 ends == {j \in (i + 1)..Len(text) : text[j] = end_marker(marker)}
                 j == CHOOSE x \in ends : \A y \in ends : x <= y
             IN  SubSeq(text, 1, i - 1) \o replacement(marker, new_content)
                     \o replace_section(SubSeq(text, j + 1, Len(text)), marker, new_content)

\* f"**Giliran: {turn_label}** — Game #{game_num}", the dash in ASCII
turn_line(turn_label, game_num) == <<"**Giliran: ", turn_label, "** - Game #", game_num>>

\* update_readme: the content read, the five sections replaced in turn by
\* board_md, moves_md, recent_md, lb_md and the turn line; the result is what
\* it writes back
update_readme_content(content, board_text, moves_text, recent_text, lb_text, turn_label, game_num) ==
    LET c1 == replace_section(content, "BOARD", board_text)
        c2 == replace_section(c1, "MOVES", moves_text)
        c3 == replace_section(c2, "RECENT", recent_text)
        c4 == replace_section(c3, "LEADERBOARD", lb_text)
    IN  replace_section(c4, "TURN", turn_line(turn_label, game_num))

---------------------------------------------------------------------------
(* The invocations *)

Players == {"alice", "bob"}

\* CHESS_MOVE: a black and a white pawn move, a white pawn reaching row 0,
\* ranks 9 and 0, an empty source, a capture of an own piece, a short token
TokenPool ==
    { <<"e","7","e","5">>, <<" ","E","2","e","4"," ">>, <<"a","2","a","8">>,
      <<"e","9","e","4">>, <<"e","0","e","4">>, <<"e","7","e","9">>,
      <<"e","3","e","4">>, <<"a","8","b","8">>, <<"e","2","e">> }

NoCall == [fn |-> "none"]
NoRet == <<>>

\* the content of `file` after the first k of the writes ws
After(ws, k, file, old) ==
    IF \E i \in 1..k : ws[i].file = file
    THEN <<ws[CHOOSE i \in 1..k : ws[i].file = file].data>>
    ELSE old

\* the first k writes of an invocation reach the disk
Persist(r, k) ==
    /\ dirExists' = (dirExists \/ \E i \in 1..k : r.writes[i].file = "dir")
    /\ lbFile' = After(r.writes, k, "lb", lbFile)
    /\ gameFile' = After(r.writes, k, "game", gameFile)
    /\ readme' = After(r.writes, k, "readme", readme)
    /\ written' = [i \in 1..k |-> r.writes[i].file]

\* the moves a leaderboard counts
RECURSIVE Total(_)
Total(lb) == IF lb = <<>> THEN 0 ELSE Head(lb).n + Total(Tail(lb))

\* the part of the state space that is explored
Explored(command, r) ==
    /\ command = "new" => load_game(gameFile).game_num <= MaxGame
    /\ r.kind = "moved" => Total(load_leaderboard(lbFile)) < MaxMoves

\* the history of the commands that succeeded (exit status 0)
Remember(command, move_env, player, st) ==
    /\ played' = IF st # 0 THEN played
                 ELSE IF command = "new" THEN <<>>
                 ELSE IF command = "move"
                      THEN Append(played, [token |-> move_env, player |-> player])
                      ELSE played
    /\ tally' = IF st = 0 /\ command = "move"
                THEN [tally EXCEPT ![player] = @ + 1]
                ELSE tally

\* one invocation of main, run to its end
Invoke(command, move_env, player) ==
    LET r == main(command, move_env, player, dirExists, gameFile, lbFile) IN
    /\ Explored(command, r)
    /\ Persist(r, Len(r.writes))
    /\ status' = r.status
    /\ outcome' = [kind |-> r.kind, msg |-> r.msg, checked |-> r.checked]
    /\ lastCmd' = [command |-> command, move |-> move_env, player |-> player]
    /\ Remember(command, move_env, player, r.status)
    /\ UNCHANGED <<kills, call, ret>>

\* one invocation of main, killed after k of its writes
Killed(command, move_env, player) ==
    LET r == main(command, move_env, player, dirExists, gameFile, lbFile) IN
    /\ Explored(command, r)
    /\ kills < MaxKills
    /\ kills' = kills + 1
    /\ \E k \in 0..(Len(r.writes) - 1) :
        /\ Persist(r, k)
        /\ status' = 137
        /\ outcome' = [kind |-> "killed", msg |-> r.kind, checked |-> r.checked]
        /\ lastCmd' = [command |-> command, move |-> move_env, player |-> player]
    /\ UNCHANGED <<played, tally, call, ret>>

NoCmd == [command |-> "", move |-> <<>>, player |-> ""]

\* nothing was persisted yet; chess_data/ may be there (empty) or not
Init ==
    /\ dirExists \in BOOLEAN
    /\ gameFile = <<>>
    /\ lbFile = <<>>
    /\ readme = <<>>
    /\ status = 0
    /\ outcome = [kind |-> "none", msg |-> "", checked |-> FALSE]
    /\ lastCmd = NoCmd
    /\ written = <<>>
    /\ kills = 0
    /\ played = <<>>
    /\ tally = [p \in Players |-> 0]
    /\ call = NoCall
    /\ ret = NoRet

NewCmd == \E player \in Players : Invoke("new", <<>>, player)

MoveCmd == \E move_env \in TokenPool, player \in Players : Invoke("move", move_env, player)

ShowCmd == \E player \in Players : Invoke("show", <<>>, player)

Next == NewCmd \/ MoveCmd \/ ShowCmd

Spec == Init /\ [][Next]_vars

KillNew == \E player \in Players : Killed("new", <<>>, player)

KillMove == \E move_env \in TokenPool, player \in Players : Killed("move", move_env, player)

KillShow == \E player \in Players : Killed("show", <<>>, player)

NextCrash == NewCmd \/ MoveCmd \/ ShowCmd \/ KillNew \/ KillMove \/ KillShow

SpecCrash == Init /\ [][NextCrash]_vars

\* the games captures are followed in: a black pawn takes a white one and
\* goes back, the queens take each other either way, a white pawn takes a
\* rook on row 0, a black pawn takes the king through rank 9, a quiet move
CapturePool ==
    { <<"a","7","a","2">>, <<"a","2","a","7">>, <<"d","8","d","1">>,
      <<"d","1","d","8">>, <<"a","2","a","8">>, <<"e","7","e","9">>,
      <<"e","2","e","4">> }

CaptureCmd == \E move_env \in CapturePool : Invoke("move", move_env, "alice")

NextCapture == NewCmd \/ CaptureCmd

SpecCapture == Init /\ [][NextCapture]_vars

---------------------------------------------------------------------------
(* The pure functions on their own: a call is drawn, then made *)

Sides == {"white", "black"}

Idle ==
    /\ dirExists = FALSE
    /\ gameFile = <<>>
    /\ lbFile = <<>>
    /\ readme = <<>>
    /\ status = 0
    /\ outcome = [kind |-> "none", msg |-> "", checked |-> FALSE]
    /\ lastCmd = NoCmd
    /\ written = <<>>
    /\ kills = 0
    /\ played = <<>>
    /\ tally = [p \in Players |-> 0]
    /\ ret = NoRet

StaysIdle ==
    UNCHANGED <<dirExists, gameFile, lbFile, readme, status, outcome, lastCmd, written,
                kills, played, tally>>

\* the tokens parse_move is tried on
ParseAlphabet == {"a", "H", "i", "1", "8", "0", "9", " "}

ParseTokens == UNION {[1..n -> ParseAlphabet] : n \in 0..MaxTokLen}

InitParse == Idle /\ call \in {[fn |-> "parse_move", move_str |-> t] : t \in ParseTokens}

ParseCall ==
    /\ call.fn = "parse_move" /\ ret = NoRet
    /\ ret' = <<parse_move(call.move_str)>>
    /\ UNCHANGED call /\ StaysIdle

SpecParse == InitParse /\ [][ParseCall]_vars

\* the boards the move logic is tried on: the empty or the initial board with
\* any two cells put on the two squares of the move
EmptyBoard == [r \in Rows |-> [c \in Cols |-> "."]]

SquarePool == {<<0, 0>>, <<0, 4>>, <<1, 4>>, <<4, 3>>, <<6, 0>>, <<7, 4>>}

Place(board, sq, cell) == [board EXCEPT ![sq[1]][sq[2]] = cell]

MoveCalls(fn) ==
    {[fn |-> fn, board |-> Place(Place(base, f, p), t, q), from_pos |-> f, to_pos |-> t,
      turn |-> side] :
        base \in {EmptyBoard, INITIAL_BOARD}, f \in SquarePool, t \in SquarePool,
        p \in Cells, q \in Cells, side \in Sides}

InitCheck == Idle /\ call \in MoveCalls("is_valid_move")

CheckCall ==
    /\ call.fn = "is_valid_move" /\ ret = NoRet
    /\ ret' = <<is_valid_move(call.board, call.from_pos, call.to_pos, call.turn)>>
    /\ UNCHANGED call /\ StaysIdle

SpecCheck == InitCheck /\ [][CheckCall]_vars

InitApply == Idle /\ call \in {c \in MoveCalls("apply_move") : c.turn = "black"}

\* what apply_move returns, and the caller's board after the call: the cells
\* are assigned in a deep copy, which shares no row with it
ApplyCall ==
    /\ call.fn = "apply_move" /\ ret = NoRet
    /\ ret' = <<apply_move(call.board, call.from_pos, call.to_pos), call.board>>
    /\ UNCHANGED call /\ StaysIdle

SpecApply == InitApply /\ [][ApplyCall]_vars

LegalSquares == {<<0, 0>>, <<1, 7>>, <<3, 4>>, <<7, 7>>}

LegalCells == {".", "P", "k", "q"}

InitLegal ==
    /\ Idle
    /\ call \in {[fn |-> "get_legal_moves", board |-> Place(Place(base, f, p), t, q),
                  turn |-> side] :
                    base \in {EmptyBoard, INITIAL_BOARD}, f \in LegalSquares,
                    t \in LegalSquares, p \in LegalCells, q \in LegalCells, side \in Sides}

LegalCall ==
    /\ call.fn = "get_legal_moves" /\ ret = NoRet
    /\ ret' = <<get_legal_moves(call.board, call.turn)>>
    /\ UNCHANGED call /\ StaysIdle

SpecLegal == InitLegal /\ [][LegalCall]_vars

\* the logs the recent fragment is rendered of, after a command was run on them
RecentRecords ==
    {[move |-> t, player |-> p, time |-> UtcNow] :
        t \in {<<"E","7","E","5">>, <<"E","2","E","4">>}, p \in Players}

RecentLogs == UNION {[1..n -> RecentRecords] : n \in 0..MaxLog}

InitRecent ==
    /\ Idle
    /\ call \in {[fn |-> "recent_md", cmd |-> c, moves |-> log] :
                    c \in {"show", "new", "move"}, log \in RecentLogs}

\* main run on a snapshot with the log drawn, then the recent fragment of the
\* state["moves"] it hands to render_board_md
RecentCall ==
    /\ call.fn = "recent_md" /\ ret = NoRet
    /\ LET state == [FreshState EXCEPT !.moves = call.moves]
           r == main(call.cmd, <<"e","7","e","5">>, "alice", TRUE, <<state>>, <<>>)
           rendered == r.writes[Len(r.writes)].data
       IN  ret' = <<recent_md(rendered.moves)>>
    /\ UNCHANGED call /\ StaysIdle

SpecRecent == InitRecent /\ [][RecentCall]_vars

\* the leaderboards the rankings are rendered of: the players in the order
\* they were first credited, each with a count
RankPlayers ==
    <<"u01", "u02", "u03", "u04", "u05", "u06", "u07", "u08", "u09", "u10",
      "u11", "u12", "u13">>

RankCounts == {1, 2}

RankBoards ==
    UNION {{[i \in 1..len |-> [player |-> RankPlayers[i], n |-> c[i]]] :
                c \in [1..len -> RankCounts]} : len \in 0..MaxEntries}

InitRank ==
    /\ Idle
    /\ call \in {[fn |-> "lb_md", leaderboard |-> lb] : lb \in RankBoards}

RankCall ==
    /\ call.fn = "lb_md" /\ ret = NoRet
    /\ ret' = <<lb_md(call.leaderboard)>>
    /\ UNCHANGED call /\ StaysIdle

SpecRank == InitRank /\ [][RankCall]_vars

\* the documents the splicer is tried on: for every section, in the order of
\* the code or the reverse, a part that holds its marker pair (with old
\* content, with none, or twice) or lacks it (no marker, START only, END
\* before START), the parts set apart by text
SectionNames == <<"BOARD", "MOVES", "RECENT", "LEADERBOARD", "TURN">>

PartKinds == {"absent", "pair", "empty", "twice", "start", "reversed"}

Old(marker, k) == <<"old", marker, k>>

\* the part of one section, inside1 and inside2 between its pairs of markers
Part(kind, marker, inside1, inside2) ==
    CASE kind = "absent" -> <<>>
      [] kind = "pair" -> <<start_marker(marker)>> \o inside1 \o <<end_marker(marker)>>
      [] kind = "empty" -> <<start_marker(marker)>> \o inside2 \o <<end_marker(marker)>>
      [] kind = "twice" ->
            <<start_marker(marker)>> \o inside1 \o <<end_marker(marker), <<"between">>,
              start_marker(marker)>> \o inside2 \o <<end_marker(marker)>>
      [] kind = "start" -> <<start_marker(marker), Old(marker, "1")>>
      [] kind = "reversed" ->
            <<end_marker(marker), Old(marker, "1"), start_marker(marker)>>

\* inside[marker] is what stands in the first and in the second pair
RECURSIVE Parts(_, _, _)
Parts(layout, k, inside) ==
    IF k > Len(SectionNames) THEN << <<"footer">> >>
    ELSE LET marker == SectionNames[IF layout.forward THEN k
                                    ELSE Len(SectionNames) + 1 - k]
         IN  << <<"text", marker>> >>
                \o Part(layout.kind[marker], marker, inside[marker][1], inside[marker][2])
                \o Parts(layout, k + 1, inside)

\* the document as it is before the splicer runs
SectionSet == {SectionNames[i] : i \in DOMAIN SectionNames}

OldInside ==
    [marker \in SectionSet |-> << <<Old(marker, "1"), Newline, Old(marker, "2")>>, <<>> >>]

Document(layout) == Parts(layout, 1, OldInside)

Layouts ==
    {[forward |-> f, kind |-> k] :
        f \in BOOLEAN, k \in [SectionSet -> PartKinds]}

\* the fragments handed to update_readme, each a stretch of text
SpliceArgs ==
    {[board_text |-> <<"board_md">>, moves_text |-> <<"moves_md">>,
      recent_text |-> <<"recent_md">>, lb_text |-> <<"lb_md">>,
      turn_label |-> t[1], game_num |-> t[2]] : t \in {<<"HITAM", 1>>, <<"PUTIH", 2>>}}

InitSplice ==
    /\ Idle
    /\ call \in {[fn |-> "update_readme", layout |-> l, content |-> Document(l), args |-> a] :
                    l \in Layouts, a \in SpliceArgs}

SpliceCall ==
    /\ call.fn = "update_readme" /\ ret = NoRet
    /\ ret' = <<update_readme_content(call.content, call.args.board_text,
                                      call.args.moves_text, call.args.recent_text,
                                      call.args.lb_text, call.args.turn_label,
                                      call.args.game_num)>>
    /\ UNCHANGED call /\ StaysIdle

SpecSplice == InitSplice /\ [][SpliceCall]_vars

---------------------------------------------------------------------------
(* The specified behaviour, stated apart from the code *)

ColourOf(cell) ==
    IF cell \in WhitePieces THEN "white" ELSE IF cell \in BlackPieces THEN "black" ELSE "none"

FileOf == [ch \in {"a","b","c","d","e","f","g","h","A","B","C","D","E","F","G","H"} |->
              CASE ch \in {"a", "A"} -> 0 [] ch \in {"b", "B"} -> 1
                [] ch \in {"c", "C"} -> 2 [] ch \in {"d", "D"} -> 3
                [] ch \in {"e", "E"} -> 4 [] ch \in {"f", "F"} -> 5
                [] ch \in {"g", "G"} -> 6 [] ch \in {"h", "H"} -> 7]

RankOf == [ch \in {"1","2","3","4","5","6","7","8"} |->
              CASE ch = "1" -> 1 [] ch = "2" -> 2 [] ch = "3" -> 3 [] ch = "4" -> 4
                [] ch = "5" -> 5 [] ch = "6" -> 6 [] ch = "7" -> 7 [] ch = "8" -> 8]

\* file-rank-file-rank with files in a..h, either case, and ranks in 1..8
WellFormed(t) ==
    /\ Len(t) = 4
    /\ t[1] \in DOMAIN FileOf /\ t[2] \in DOMAIN RankOf
    /\ t[3] \in DOMAIN FileOf /\ t[4] \in DOMAIN RankOf

SquaresOf(t) ==
    IF WellFormed(t)
    THEN << <<8 - RankOf[t[2]], FileOf[t[1]]>>, <<8 - RankOf[t[4]], FileOf[t[3]]>> >>
    ELSE <<>>

\* main strips CHESS_MOVE before it parses it: the tokens as the parser is
\* handed them carry no blank at either end
Stripped(t) == t = <<>> \/ (t[1] \notin Whitespace /\ t[Len(t)] \notin Whitespace)

Rejections == {"malformed", "illegal"}

Count(lb, player) ==
    IF \E i \in DOMAIN lb : lb[i].player = player
    THEN lb[CHOOSE i \in DOMAIN lb : lb[i].player = player].n
    ELSE 0

Listed(lb) == {lb[i].player : i \in DOMAIN lb}

---------------------------------------------------------------------------
(* C1: a rejected move command (malformed token, or one of the three       *)
(* legality rejections) leaves the persisted snapshot and the persisted    *)
(* leaderboard as they were and ends with a failure status.                *)
C1_RejectionWritesNothing ==
    [][(lastCmd'.command = "move" /\ outcome'.kind \in Rejections) =>
            /\ gameFile' = gameFile
            /\ lbFile' = lbFile
            /\ status' # 0]_vars

\* "e2e4" was refused while black is to move, with both files on disk
C1_Witness ==
    /\ lastCmd.command = "move" /\ lastCmd.move = <<" ","E","2","e","4"," ">>
    /\ outcome.kind = "illegal" /\ outcome.msg = BlackTurnMsg
    /\ status = 1 /\ written = <<>>
    /\ gameFile # <<>> /\ lbFile # <<>>
    /\ Len(gameFile[1].moves) = 2

(* C2: parse returns the squares (row = 8 - rank, column = file index) of  *)
(* a 4-character file-rank-file-rank token with files in a..h and ranks in *)
(* 1..8, and NONE for every other token, ranks 0 and 9 included.           *)
C2_ParseAsClaimed ==
    (ret # NoRet /\ Stripped(call.move_str)) => ret[1] = SquaresOf(call.move_str)

(* C3: a move command whose token is not file-rank-file-rank with ranks in *)
(* 1..8 ends as a malformed-move rejection and the legality checker is not *)
(* consulted on it.                                                        *)
C3_MalformedBeforeLegality ==
    (lastCmd.command = "move" /\ Stripped(lastCmd.move) /\ ~WellFormed(lastCmd.move)) =>
        (outcome.kind = "malformed" /\ ~outcome.checked)

(* C4: a move command persists the leaderboard, the snapshot and the       *)
(* document all three, or none of them, also when it is stopped between    *)
(* its first and its last write.                                           *)
C4_AllOrNothing ==
    lastCmd.command = "move" =>
        Range(written) \in {{}, {"lb", "game", "readme"}}

(* C5: check rejects an empty source, else a source piece of the side not  *)
(* to move (with that side's message), else a destination holding a piece *)
(* of the source piece's colour, and accepts everything else.              *)
C5_CheckRules ==
    ret # NoRet =>
        LET piece == call.board[call.from_pos[1]][call.from_pos[2]]
            target == call.board[call.to_pos[1]][call.to_pos[2]]
            expected ==
                IF piece = "." THEN <<FALSE, NoPieceMsg>>
                ELSE IF ColourOf(piece) # call.turn
                THEN <<FALSE, IF call.turn = "white" THEN WhiteTurnMsg ELSE BlackTurnMsg>>
                ELSE IF ColourOf(target) = ColourOf(piece) THEN <<FALSE, OwnPieceMsg>>
                ELSE <<TRUE, "OK">>
        IN  /\ ret[1].exc = ""
            /\ <<ret[1].valid, ret[1].msg>> = expected

\* a white piece onto a white piece while black is to move: the turn decides
C5_Witness ==
    /\ ret # NoRet
    /\ call.fn = "is_valid_move" /\ call.turn = "black"
    /\ call.from_pos # call.to_pos
    /\ ColourOf(call.board[call.from_pos[1]][call.from_pos[2]]) = "white"
    /\ ColourOf(call.board[call.to_pos[1]][call.to_pos[2]]) = "white"
    /\ ret[1].msg = BlackTurnMsg

\* all 64 x 64 tokens, sources in row-major order and, per source, destinations
\* in row-major order
AllTokens ==
    [i \in 1..4096 |->
        LET s == (i - 1) \div 64
            d == (i - 1) % 64
        IN  <<LowerLetters[(s % 8) + 1], DigitChars[9 - (s \div 8)],
              LowerLetters[(d % 8) + 1], DigitChars[9 - (d \div 8)]>>]

(* C6: legalMoves(board, side) is the row-major sequence of the tokens     *)
(* whose source holds a piece of the side and whose destination holds no   *)
(* piece of the side, without duplicates; its length is n * (64 - n) for n *)
(* pieces of the side.                                                     *)
C6_LegalMoves ==
    ret # NoRet =>
        LET Mine(sq) == ColourOf(call.board[sq[1]][sq[2]]) = call.turn
            Keep(t) == Mine(SquaresOf(t)[1]) /\ ~Mine(SquaresOf(t)[2])
            n == Cardinality({sq \in Squares : Mine(sq)})
        IN  /\ ret[1] = SelectSeq(AllTokens, Keep)
            /\ Len(ret[1]) = n * (64 - n)
            /\ Cardinality(Range(ret[1])) = Len(ret[1])

\* the initial board with a seventeenth black piece on it
C6_Witness ==
    /\ ret # NoRet
    /\ call.fn = "get_legal_moves" /\ call.turn = "black"
    /\ Len(ret[1]) = 17 * 47

(* C7: a successful move leaves the side to move the opposite of what it   *)
(* was, a second successful move right after it brings it back, and a      *)
(* rejected move leaves it as it was.                                      *)
C7_TurnAlternates ==
    [][LET before == load_game(gameFile).turn
           after == load_game(gameFile').turn
       IN  /\ (lastCmd'.command = "move" /\ outcome'.kind = "moved") =>
                /\ {before, after} = Sides
                /\ \A t \in TokenPool, p \in Players :
                     LET r == main("move", t, p, dirExists', gameFile', lbFile') IN
                     r.kind = "moved" =>
                        load_game(After(r.writes, Len(r.writes), "game", gameFile')).turn
                            = before
           /\ (lastCmd'.command = "move" /\ outcome'.kind \in Rejections) => after = before
      ]_vars

\* two moves were accepted in a row and black is to move again
C7_Witness ==
    /\ lastCmd.command = "move" /\ outcome.kind = "moved"
    /\ gameFile # <<>>
    /\ Len(gameFile[1].moves) = 2
    /\ gameFile[1].turn = "black"

(* C8: apply(board, source, destination), for two distinct squares,        *)
(* returns a board whose source cell is empty, whose destination cell      *)
(* holds the source piece (a queen of its colour for a white pawn on row 0 *)
(* or a black pawn on row 7) and whose other 62 cells are the input's; the *)
(* input board is as it was.                                               *)
C8_ApplyFrame ==
    (ret # NoRet /\ call.from_pos # call.to_pos) =>
        LET piece == call.board[call.from_pos[1]][call.from_pos[2]]
            landed == IF piece = "P" /\ call.to_pos[1] = 0 THEN "Q"
                      ELSE IF piece = "p" /\ call.to_pos[1] = 7 THEN "q"
                      ELSE piece
        IN  /\ DOMAIN ret[1] = Rows
            /\ ret[2] = call.board
            /\ \A sq \in Squares :
                 ret[1][sq[1]][sq[2]] =
                    IF sq = call.from_pos THEN "."
                    ELSE IF sq = call.to_pos THEN landed
                    ELSE call.board[sq[1]][sq[2]]

\* a white pawn took a piece on row 0 and stands there as a queen
C8_Witness ==
    /\ ret # NoRet
    /\ call.fn = "apply_move"
    /\ call.board[call.from_pos[1]][call.from_pos[2]] = "P"
    /\ call.to_pos[1] = 0
    /\ call.board[call.to_pos[1]][call.to_pos[2]] = "r"
    /\ ret[1][call.to_pos[1]][call.to_pos[2]] = "Q"
    /\ ret[1][call.from_pos[1]][call.from_pos[2]] = "."

(* C9: over move and new-game commands no leaderboard count decreases and  *)
(* no entry is removed; a successful move adds exactly 1 to its actor's    *)
(* count (1 for an actor not listed before) and changes no other count; a  *)
(* new-game command leaves the leaderboard as it was.                      *)
C9_LeaderboardGrows ==
    [][LET lb == load_leaderboard(lbFile)
           lb2 == load_leaderboard(lbFile')
       IN  /\ Listed(lb) \subseteq Listed(lb2)
           /\ \A p \in Players : Count(lb2, p) >= Count(lb, p)
           /\ (lastCmd'.command = "move" /\ outcome'.kind = "moved") =>
                LET log == gameFile'[1].moves
                    actor == log[Len(log)].player
                IN  /\ actor \notin Listed(lb) => Count(lb2, actor) = 1
                    /\ Count(lb2, actor) = Count(lb, actor) + 1
                    /\ \A p \in Players \ {actor} : Count(lb2, p) = Count(lb, p)
                    /\ Listed(lb2) = Listed(lb) \cup {actor}
           /\ lastCmd'.command = "new" => lbFile' = lbFile
      ]_vars

\* alice moved, then bob, then alice again
C9_Witness ==
    /\ lastCmd.command = "move" /\ outcome.kind = "moved"
    /\ lbFile # <<>>
    /\ Count(lbFile[1], "alice") = 2
    /\ Count(lbFile[1], "bob") = 1
    /\ lbFile[1][1].player = "alice"

(* C10: newGame yields the standard board, black to move, an empty log and *)
(* the previous game number plus 1, and game number 1 when no snapshot was *)
(* ever persisted.                                                         *)
C10_NewGameNumber ==
    [][(lastCmd'.command = "new" /\ outcome'.kind = "new") =>
            /\ gameFile' # <<>>
            /\ gameFile'[1].board = INITIAL_BOARD
            /\ gameFile'[1].turn = "black"
            /\ gameFile'[1].moves = <<>>
            /\ gameFile # <<>> => gameFile'[1].game_num = gameFile[1].game_num + 1
            /\ gameFile = <<>> => gameFile'[1].game_num = 1
      ]_vars

\* the game number a store holds: that of the snapshot, 1 while there is none
GameNumberOf(game) == IF game = <<>> THEN 1 ELSE game[1].game_num

(* C11: over any sequence of commands the game number is a positive integer
   that never decreases: every move command, accepted or rejected, leaves it
   as it was, and every new-game command raises it by exactly 1. *)
C11_GameNumberSteps ==
    [][LET n == GameNumberOf(gameFile)
           m == GameNumberOf(gameFile')
       IN  /\ m \in Nat /\ m >= 1 /\ m >= n
           /\ lastCmd'.command = "move" => m = n
           /\ lastCmd'.command = "new" => m = n + 1]_vars

\* a third game was opened after a move was accepted in the second
C11_Witness ==
    /\ outcome.kind = "new"
    /\ GameNumberOf(gameFile) = 3
    /\ Total(load_leaderboard(lbFile)) >= 1

(* C12: on a store where nothing was ever persisted and chess_data/ was not
   yet created, the move "e7e5" by "alice" succeeds: afterwards the persisted
   board is empty at row 1 / column 4 and has a black pawn at row 3 / column 4,
   white is to move, the game number is 1, the log is the single record
   E7E5 / alice, and alice's leaderboard count is 1. *)
C12_FirstMove ==
    [][(/\ ~dirExists /\ gameFile = <<>> /\ lbFile = <<>>
        /\ lastCmd'.command = "move"
        /\ lastCmd'.move = <<"e","7","e","5">>
        /\ lastCmd'.player = "alice")
       => (/\ status' = 0
           /\ gameFile' # <<>>
           /\ gameFile'[1].board[1][4] = "."
           /\ gameFile'[1].board[3][4] = "p"
           /\ gameFile'[1].turn = "white"
           /\ gameFile'[1].game_num = 1
           /\ Len(gameFile'[1].moves) = 1
           /\ gameFile'[1].moves[1].move = <<"E","7","E","5">>
           /\ gameFile'[1].moves[1].player = "alice"
           /\ lbFile' # <<>>
           /\ Count(lbFile'[1], "alice") = 1)]_vars

\* a token in capitals, blanks around it dropped
Capital ==
    [ch \in {"a","b","c","d","e","f","g","h"} |->
        CASE ch = "a" -> "A" [] ch = "b" -> "B" [] ch = "c" -> "C" [] ch = "d" -> "D"
          [] ch = "e" -> "E" [] ch = "f" -> "F" [] ch = "g" -> "G" [] ch = "h" -> "H"]

UpperToken(t) ==
    LET core == SelectSeq(t, LAMBDA ch : ch \notin Whitespace)
    IN  [i \in 1..Len(core) |-> IF core[i] \in DOMAIN Capital THEN Capital[core[i]]
                                ELSE core[i]]

\* the starting board with the moves of `cmds` made on it one after the other,
\* each token read and made as the engine reads and makes a move
RECURSIVE Replay(_, _)
Replay(board, cmds) ==
    IF cmds = <<>> THEN board
    ELSE LET sq == parse_move(str_strip(Head(cmds).token))
         IN  Replay(apply_move(board, sq[1], sq[2]), Tail(cmds))

(* C13: with invocations run one at a time, each to its end, the persisted
   state is the sequential replay of the commands: the log holds the uppercase
   tokens and the actors of the moves that succeeded since the last new game,
   in the order submitted; the board is the starting board with those moves
   made in order; each actor's leaderboard count is the number of that actor's
   moves that succeeded, over all games. *)
C13_SequentialReplay ==
    LET g == load_game(gameFile)
        lb == load_leaderboard(lbFile)
    IN  /\ Len(g.moves) = Len(played)
        /\ \A i \in 1..Len(played) :
              /\ g.moves[i].move = UpperToken(played[i].token)
              /\ g.moves[i].player = played[i].player
        /\ g.board = Replay(INITIAL_BOARD, played)
        /\ \A p \in Players : Count(lb, p) = tally[p]

\* game 2 after bob's "e7e5" and alice's " E2e4 ", game 1 having had a move
C13_Witness ==
    /\ GameNumberOf(gameFile) = 2
    /\ played = << [token |-> <<"e","7","e","5">>, player |-> "bob"],
                   [token |-> <<" ","E","2","e","4"," ">>, player |-> "alice"] >>
    /\ tally["alice"] + tally["bob"] = 3
    /\ outcome.kind = "moved"

\* the table rows of a fragment: the lines that are neither headings nor a
\* placeholder
RecentRows(md) == SelectSeq(md, LAMBDA line : Len(line) = 7)

\* the smaller of two numbers
Min(a, b) == IF a <= b THEN a ELSE b

(* C14: the recent-activity fragment lists exactly the last min(5, n) records
   of the n-record move log, the most recent first, each with its move token
   and its actor; after a new-game command it lists no moves. *)
C14_RecentListing ==
    (call.fn = "recent_md" /\ ret # NoRet) =>
        LET log == CASE call.cmd = "new" -> <<>>
                     [] call.cmd = "move" ->
                            Append(call.moves, [move |-> <<"E","7","E","5">>,
                                                player |-> "alice"])
                     [] OTHER -> call.moves
            n == Len(log)
            rows == RecentRows(ret[1])
        IN  /\ Len(rows) = Min(5, n)
            /\ \A i \in 1..Len(rows) :
                  /\ rows[i][2] = log[n + 1 - i].move
                  /\ rows[i][4] = log[n + 1 - i].player
            /\ call.cmd = "new" => rows = <<>>

\* a log of six records, the oldest unlike the others, was rendered in five rows
C14_Witness ==
    /\ call.fn = "recent_md" /\ ret # NoRet
    /\ Len(call.moves) = 6 /\ call.cmd = "show"
    /\ \A i \in 2..6 : call.moves[i] # call.moves[1]
    /\ Len(RecentRows(ret[1])) = 5

\* the table rows of the rankings fragment
RankRows(md) == SelectSeq(md, LAMBDA line : Len(line) = 9)

(* C15: the rankings fragment lists at most 10 entries of the leaderboard (all
   of them when there are no more than 10), in non-increasing order of move
   count; every listed entry has a count at least that of every unlisted
   entry; and the listing is fixed by the leaderboard as inserted: of entries
   with equal counts the one inserted earlier is listed higher, and is the
   one listed when only one of them is. *)
C15_Rankings ==
    (call.fn = "lb_md" /\ ret # NoRet) =>
        LET lb == call.leaderboard
            rows == RankRows(ret[1])
            Who(i) == rows[i][4]
            Cnt(i) == rows[i][8]
            Pos(u) == CHOOSE k \in DOMAIN lb : lb[k].player = u
            Unlisted == {k \in DOMAIN lb : \A i \in DOMAIN rows : Who(i) # lb[k].player}
        IN  /\ Len(rows) <= 10
            /\ Len(rows) = Min(10, Len(lb))
            /\ \A i \in DOMAIN rows :
                  /\ rows[i][2] = i
                  /\ \E k \in DOMAIN lb : lb[k].player = Who(i) /\ lb[k].n = Cnt(i)
            /\ \A i, j \in DOMAIN rows :
                  i < j => /\ Who(i) # Who(j)
                           /\ Cnt(i) >= Cnt(j)
                           /\ Cnt(i) = Cnt(j) => Pos(Who(i)) < Pos(Who(j))
            /\ \A i \in DOMAIN rows, k \in Unlisted :
                  /\ Cnt(i) >= lb[k].n
                  /\ Cnt(i) = lb[k].n => Pos(Who(i)) < k

\* eleven players, the last with the higher count: it is listed first and
\* the tenth, tied with those listed, is left out
C15_Witness ==
    /\ call.fn = "lb_md" /\ ret # NoRet
    /\ Len(call.leaderboard) = 11
    /\ \A k \in 1..10 : call.leaderboard[k].n = 1
    /\ call.leaderboard[11].n = 2
    /\ Len(RankRows(ret[1])) = 10
    /\ RankRows(ret[1])[1][4] = "u11"
    /\ RankRows(ret[1])[10][4] = "u09"

(* C16: in every game state reached from the starting position by accepted
   move commands and new-game commands, no white pawn stands on row 0 and no
   black pawn stands on row 7: a pawn that reaches its last row is stored as
   a queen of its colour. *)
C16_NoPawnOnLastRow ==
    LET board == load_game(gameFile).board
    IN  \A c \in Cols : board[0][c] # "P" /\ board[7][c] # "p"

(* C17: in every persisted game state the side to move is black exactly when
   the move log holds an even number of records, and white exactly when it
   holds an odd number. *)
C17_TurnParity ==
    gameFile # <<>> =>
        LET g == gameFile[1]
        IN  /\ g.turn \in {"black", "white"}
            /\ g.turn = "black" <=> Len(g.moves) % 2 = 0
            /\ g.turn = "white" <=> Len(g.moves) % 2 = 1

\* a snapshot of three moves with white to move, in a game after the first
C17_Witness ==
    /\ gameFile # <<>>
    /\ Len(gameFile[1].moves) = 3
    /\ gameFile[1].turn = "white"
    /\ gameFile[1].game_num = 2

\* the pieces of one side on a board
Pieces(board, side) ==
    Cardinality({sq \in Squares : ColourOf(board[sq[1]][sq[2]]) = side})

Opponent(side) == IF side = "white" THEN "black" ELSE "white"

\* the cell a pair of indices names, a negative index counted from the end
CellAt(board, sq) ==
    board[IF sq[1] < 0 THEN sq[1] + 8 ELSE sq[1]][IF sq[2] < 0 THEN sq[2] + 8 ELSE sq[2]]

(* C18: every accepted move leaves the number of pieces of the moving side
   as it was and takes one piece from the other side exactly when the
   destination cell held a piece of that side; so within a game the number of
   pieces never grows and never exceeds 32, and a captured piece does not come
   back: the square a piece moves away from is left empty, also when the move
   goes back along the coordinates of a capture. *)
C18_PieceCounts ==
    [][LET before == load_game(gameFile).board
           after == load_game(gameFile').board
           mover == load_game(gameFile).turn
           other == Opponent(mover)
           squares == parse_move(str_strip(lastCmd'.move))
           taken == IF ColourOf(CellAt(before, squares[2])) = other THEN 1 ELSE 0
       IN  /\ (lastCmd'.command = "move" /\ outcome'.kind = "moved") =>
                 /\ Pieces(after, mover) = Pieces(before, mover)
                 /\ Pieces(after, other) = Pieces(before, other) - taken
                 /\ CellAt(after, squares[1]) = "."
           /\ lastCmd'.command # "new" =>
                 /\ Pieces(after, "white") <= Pieces(before, "white")
                 /\ Pieces(after, "black") <= Pieces(before, "black")
           /\ Pieces(after, "white") + Pieces(after, "black") <= 32]_vars

\* black's pawn took the pawn on a2, white moved, and the pawn went back to
\* a7: a2 is empty and white has 15 pieces
C18_Witness ==
    /\ gameFile # <<>>
    /\ Len(played) = 3
    /\ played[1].token = <<"a","7","a","2">>
    /\ played[2].token = <<"e","2","e","4">>
    /\ played[3].token = <<"a","2","a","7">>
    /\ gameFile[1].board[6][0] = "."
    /\ gameFile[1].board[1][0] = "p"
    /\ Pieces(gameFile[1].board, "white") = 15
    /\ Pieces(gameFile[1].board, "black") = 16

\* what the splicer is to put between the markers of a section
Fragment(marker, args) ==
    CASE marker = "BOARD" -> args.board_text
      [] marker = "MOVES" -> args.moves_text
      [] marker = "RECENT" -> args.recent_text
      [] marker = "LEADERBOARD" -> args.lb_text
      [] marker = "TURN" -> <<"**Giliran: ", args.turn_label, "** - Game #", args.game_num>>

\* the same document with the fragments between every pair of markers
Spliced(layout, args) ==
    Parts(layout, 1,
          [marker \in SectionSet |->
              << <<Newline, Fragment(marker, args), Newline>>,
                 <<Newline, Fragment(marker, args), Newline>> >>])

(* C19: in a document whose sections lie apart, the splicer changes only what
   stands between the START and the END marker of each of BOARD, MOVES,
   RECENT, LEADERBOARD and TURN, putting the section's fragment there, and
   leaves every other part, the markers included, as it was; a section whose
   marker pair is absent is skipped without failing, and every section whose
   pair is present is still replaced. *)
C19_SpliceFrame ==
    (call.fn = "update_readme" /\ ret # NoRet) =>
        /\ call.content = Document(call.layout)
        /\ ret[1] = Spliced(call.layout, call.args)

\* BOARD has no marker, MOVES only its START, RECENT its END first, and
\* LEADERBOARD (twice) and TURN were replaced all the same
C19_Witness ==
    /\ call.fn = "update_readme" /\ ret # NoRet
    /\ call.layout.kind["BOARD"] = "absent"
    /\ call.layout.kind["MOVES"] = "start"
    /\ call.layout.kind["RECENT"] = "reversed"
    /\ call.layout.kind["LEADERBOARD"] = "twice"
    /\ call.layout.kind["TURN"] = "pair"
    /\ ret[1] # call.content
    /\ \E i \in DOMAIN ret[1] : ret[1][i] = <<"lb_md">>
    /\ \E i \in DOMAIN ret[1] : ret[1][i] = <<"**Giliran: ", "PUTIH", "** - Game #", 2>>
    /\ \A i \in DOMAIN ret[1] : ret[1][i] # <<"board_md">>

====
